---- MODULE Spec2Model ----
(***************************************************************************)
(* A model of the bookstore / comments toolkit (src/A3/assignment3_code.py):*)
(* helperClass, bookData and commentData.                                  *)
(*                                                                         *)
(* Python objects are modelled as a heap: `recs` holds the dictionaries     *)
(* (book or comment records), `lists` the list objects (sequences of        *)
(* references into recs) and `objs` the bookData / commentData instances    *)
(* (each a reference to the list its attribute is bound to).  `call` is the *)
(* last method call with its arguments and its outcome (a returned value or *)
(* a raised exception).                                                     *)
(*                                                                         *)
(* The TimeAndMemory class of src/A2/A2.py is modelled by `tam`, the        *)
(* attributes of one instance, and `gc`, the interpreter's automatic        *)
(* garbage collection switch that investigate turns off and on.  The        *)
(* CleanerClass of the same file is modelled by `df`, the DataFrame its     *)
(* instance holds.                                                          *)
(***************************************************************************)
EXTENDS Integers, Sequences, FiniteSets, TLC

VARIABLES
    recs,    \* heap of dict objects: record reference -> (key -> value)
    lists,   \* heap of list objects: list reference -> sequence of record references
    objs,    \* heap of instances: [cls, ref], ref the list bound to .books / .comments
    origin,  \* for each instance, the instance whose method returned it (0: the caller built it)
    input,   \* the argument a pure helper is applied to
    call,    \* the last call: [op, self, args, ret]
    tam,     \* the TimeAndMemory instance: [results, residuals]
    gc,      \* gc.isenabled()
    df       \* the CleanerClass instance's self.df: [columns, rows]

vars == <<recs, lists, objs, origin, input, call, tam, gc, df>>

----------------------------------------------------------------------------
(* Python values and outcomes *)

Str(s) == [t |-> "str", v |-> s]
Num(n) == [t |-> "num", v |-> n]
None == [t |-> "none"]
Bool(b) == [t |-> "bool", v |-> b]

IsStr(x) == x.t = "str"
\* isinstance(x, (int, float)); bool is a subclass of int
IsNum(x) == x.t \in {"num", "bool"}

Return(v) == [k |-> "return", v |-> v]
Raise(e) == [k |-> "raise", exc |-> e]
\* a reference to an instance of objs, as a returned value
Obj(i) == [t |-> "obj", id |-> i]

NoCall == [op |-> "none"]

\* no TimeAndMemory constructed
NoTam == [results |-> <<>>, residuals |-> <<>>]

\* no CleanerClass constructed
NoDf == [columns |-> <<>>, rows |-> <<>>]

----------------------------------------------------------------------------
(* Text: str methods, character by character *)

UpperChars == "ABCDEFGHIJKLMNOPQRSTUVWXYZ"
LowerChars == "abcdefghijklmnopqrstuvwxyz"
DigitChars == "0123456789"
\* the characters of the modelled texts, in code point order (str comparison)
CodePoints == " -.0123456789:@ABCDEFGHIJKLMNOPQRSTUVWXYZ_abcdefghijklmnopqrstuvwxyz"

CharAt(s, i) == SubSeq(s, i, i)

\* the 1-based position of character c in s, 0 when absent
IndexIn(c, s) ==
    IF \E i \in 1..Len(s) : CharAt(s, i) = c
    THEN CHOOSE i \in 1..Len(s) : CharAt(s, i) = c
    ELSE 0

\* str.lower() of one character: the letters A-Z map to a-z, the rest to themselves
\* (f @@ <<>> is f as an explicit table, computed once)
LowerOf ==
    [c \in {CharAt(CodePoints, i) : i \in 1..Len(CodePoints)} |->
        IF IndexIn(c, UpperChars) > 0 THEN CharAt(LowerChars, IndexIn(c, UpperChars)) ELSE c]
    @@ <<>>

LowerChar(c) == LowerOf[c]

RECURSIVE lower(_)
lower(s) == IF s = "" THEN "" ELSE LowerChar(CharAt(s, 1)) \o lower(SubSeq(s, 2, Len(s)))

\* sub in s
Contains(s, sub) ==
    \E i \in 1..(Len(s) - Len(sub) + 1) : SubSeq(s, i, i + Len(sub) - 1) = sub

\* int(d) for a digit character
DigitOf == [c \in {CharAt(DigitChars, i) : i \in 1..Len(DigitChars)} |-> IndexIn(c, DigitChars) - 1]
    @@ <<>>

\* str.isdigit() on the modelled (ASCII) characters
isdigit(s) == s # "" /\ \A i \in 1..Len(s) : CharAt(s, i) \in DOMAIN DigitOf

DigitVal(d) == DigitOf[d]

\* the rank of a character in code point order
OrdOf == [c \in {CharAt(CodePoints, i) : i \in 1..Len(CodePoints)} |-> IndexIn(c, CodePoints)]
    @@ <<>>

Ord(c) == OrdOf[c]

\* a < b for str
RECURSIVE StrLess(_, _)
StrLess(a, b) ==
    IF b = "" THEN FALSE
    ELSE IF a = "" THEN TRUE
    ELSE IF CharAt(a, 1) = CharAt(b, 1)
         THEN StrLess(SubSeq(a, 2, Len(a)), SubSeq(b, 2, Len(b)))
         ELSE Ord(CharAt(a, 1)) < Ord(CharAt(b, 1))

----------------------------------------------------------------------------
(* helperClass.add_hyphen, bookData.toISBN, bookData.valid *)

\* add_hyphen slicing one character late: the hyphen lands after position index
add_hyphen_after(to_string, index) ==
    IF index.t # "num" THEN Raise("TypeError")
    ELSE IF index.v < 0 \/ index.v >= Len(to_string) THEN Raise("ValueError")
    ELSE Return(SubSeq(to_string, 1, index.v + 1) \o "-"
                \o SubSeq(to_string, index.v + 2, Len(to_string)))

add_hyphen(to_string, index) ==
    IF index.t # "num" THEN Raise("TypeError")
    ELSE IF index.v < 0 \/ index.v >= Len(to_string) THEN Raise("ValueError")
    ELSE Return(SubSeq(to_string, 1, index.v) \o "-"
                \o SubSeq(to_string, index.v + 1, Len(to_string)))

HyphenIndices == <<3, 5, 9, 15>>

\* the loop of toISBN over indices[k..]; an exception of add_hyphen ends it
RECURSIVE toISBNLoop(_, _)
toISBNLoop(new_isbn, k) ==
    IF k > Len(HyphenIndices) THEN Return(new_isbn)
    ELSE LET r == add_hyphen(new_isbn, Num(HyphenIndices[k]))
         IN IF r.k = "raise" THEN r ELSE toISBNLoop(r.v, k + 1)

toISBN(isbn) == toISBNLoop(isbn, 1)

\* the weighted sum of valid's loop over range(n)
RECURSIVE cumulative_sum(_, _)
cumulative_sum(str_isbn, n) ==
    IF n = 0 THEN 0
    ELSE LET i == n - 1
             d == DigitVal(CharAt(str_isbn, i + 1))
         IN cumulative_sum(str_isbn, n - 1) + (IF i % 2 = 1 THEN d * 3 ELSE d)

\* valid with the check digit reduced modulo 10 (the standard ISBN-13 rule)
valid_mod10(str_isbn) ==
    IF ~isdigit(str_isbn) \/ Len(str_isbn) # 13 THEN Raise("ValueError")
    ELSE LET check_digit == (10 - (cumulative_sum(str_isbn, 12) % 10)) % 10
         IN Return(Bool(DigitVal(CharAt(str_isbn, 13)) = check_digit))

valid(str_isbn) ==
    IF ~isdigit(str_isbn) \/ Len(str_isbn) # 13 THEN Raise("ValueError")
    ELSE LET check_digit == 10 - (cumulative_sum(str_isbn, 12) % 10)
         IN Return(Bool(DigitVal(CharAt(str_isbn, 13)) = check_digit))

----------------------------------------------------------------------------
(* The ISBN helpers applied to one input *)

\* the number of trailing digits of an input that range over all digits
TailLen == 3

IsbnSeeds == {"9780099529126", "9781785150289"}

RECURSIVE DigitStrings(_)
DigitStrings(n) ==
    IF n = 0 THEN {""}
    ELSE {t \o CharAt(DigitChars, d) : t \in DigitStrings(n - 1), d \in 1..10}

Isbn13s == {SubSeq(s, 1, 13 - TailLen) \o t : s \in IsbnSeeds, t \in DigitStrings(TailLen)}

\* inputs that are not 13 digit characters
NotIsbn13s ==
    {"", "978009952912", "97800995291260", "978009952912X", "978-009952912", "97800995 9126"}

IsbnInputs == Isbn13s \cup NotIsbn13s

NoHeap ==
    /\ recs = <<>>
    /\ lists = <<>>
    /\ objs = <<>>
    /\ origin = <<>>
    /\ tam = NoTam
    /\ gc = TRUE
    /\ df = NoDf

InitISBN ==
    /\ NoHeap
    /\ input \in IsbnInputs
    /\ call = NoCall

CallValid ==
    /\ call' = [op |-> "valid", self |-> 0, args |-> <<Str(input)>>, ret |-> valid(input)]
    /\ UNCHANGED <<recs, lists, objs, origin, input, tam, gc, df>>

CallToISBN ==
    /\ call' = [op |-> "toISBN", self |-> 0, args |-> <<Str(input)>>, ret |-> toISBN(input)]
    /\ UNCHANGED <<recs, lists, objs, origin, input, tam, gc, df>>

NextISBN == CallValid \/ CallToISBN

SpecISBN == InitISBN /\ [][NextISBN]_vars

----------------------------------------------------------------------------
(* helperClass.wrap_text applied to one text and width *)

\* the longest text wrapped, and the widest line asked for
MaxText == 4
MaxWidth == 3

\* the characters str.split() splits at, among those of the modelled texts
Whitespace == {" ", "\n"}

\* text.replace(old, new) for single characters
RECURSIVE replace(_, _, _)
replace(text, old, new) ==
    IF text = "" THEN ""
    ELSE (IF CharAt(text, 1) = old THEN new ELSE CharAt(text, 1))
         \o replace(SubSeq(text, 2, Len(text)), old, new)

\* text.split(): the maximal runs of non-whitespace characters; word is the run
\* being read
RECURSIVE split(_, _)
split(text, word) ==
    IF text = "" THEN (IF word = "" THEN <<>> ELSE <<word>>)
    ELSE IF CharAt(text, 1) \in Whitespace
    THEN (IF word = "" THEN <<>> ELSE <<word>>) \o split(SubSeq(text, 2, Len(text)), "")
    ELSE split(SubSeq(text, 2, Len(text)), word \o CharAt(text, 1))

\* while len(word) > width: lines.append(word[:width]); word = word[width:]
RECURSIVE wrapWhile(_, _, _)
wrapWhile(word, width, lines) ==
    IF Len(word) > width
    THEN wrapWhile(SubSeq(word, width + 1, Len(word)), width,
                   Append(lines, SubSeq(word, 1, width)))
    ELSE [word |-> word, lines |-> lines]

\* the loop of wrap_text over words[k..], then the leftover line
RECURSIVE wrapFor(_, _, _, _, _)
wrapFor(words, k, width, lines, current_line) ==
    IF k > Len(words)
    THEN (IF current_line # "" THEN Append(lines, current_line) ELSE lines)
    ELSE LET cut == wrapWhile(words[k], width, lines)
         IN IF Len(current_line) + Len(cut.word) + 1 <= width
            THEN wrapFor(words, k + 1, width, cut.lines,
                         current_line \o (IF current_line # "" THEN " " ELSE "") \o cut.word)
            ELSE wrapFor(words, k + 1, width, Append(cut.lines, current_line), cut.word)

wrap_text(text, width) ==
    IF ~IsStr(text) \/ width.t # "num" THEN Raise("TypeError")
    ELSE Return(wrapFor(split(replace(text.v, "\n", " "), ""), 1, width.v, <<>>, ""))

RECURSIVE TextsOver(_, _)
TextsOver(chars, n) ==
    IF n = 0 THEN {""}
    ELSE TextsOver(chars, n - 1)
         \cup {t \o c : t \in {u \in TextsOver(chars, n - 1) : Len(u) = n - 1}, c \in chars}

\* the arguments of wrap_text: the texts of two letters, spaces and new lines up
\* to MaxText long with the widths 1..MaxWidth, and arguments of another type
WrapInputs ==
    {[text |-> Str(t), width |-> Num(w)] :
         t \in TextsOver({"a", "b", " ", "\n"}, MaxText), w \in 1..MaxWidth}
    \cup {[text |-> Num(10), width |-> Num(2)], [text |-> Str("a b"), width |-> Str("2")]}

InitWrap ==
    /\ NoHeap
    /\ input \in WrapInputs
    /\ call = NoCall

CallWrapText ==
    /\ call.op = "none"
    /\ call' = [op |-> "wrap_text", self |-> 0, args |-> <<input.text, input.width>>,
                ret |-> wrap_text(input.text, input.width)]
    /\ UNCHANGED <<recs, lists, objs, origin, input, tam, gc, df>>

NextWrap == CallWrapText

SpecWrap == InitWrap /\ [][NextWrap]_vars

----------------------------------------------------------------------------
(* Records, and the arguments of the calls *)

\* the most list objects a run builds (the caller's list included)
MaxLists == 2
\* the longest list the caller constructs an instance over
MaxLen == 2

\* book records of the seed catalog (Price in pence)
Book(isbn, title, author, price) ==
    [ISBN |-> Str(isbn), Title |-> Str(title), Author |-> Str(author), Price |-> Num(price)]

BookPool == <<
    Book("9781785150289", "Go Set a Watchman", "Harper Lee", 989),
    Book("9780099529126", "Catch-22", "Joseph Heller", 629),
    Book("9780099549482", "To Kill a Mockingbird", "Harper Lee", 499),
    Book("9780099576853", "Casino Royale", "Ian Fleming", 679) >>

\* comment records as fetched: the five fields of the comments endpoint
Comment(id, postId, name, email, body) ==
    [id |-> Num(id), postId |-> Num(postId), name |-> Str(name), email |-> Str(email),
     body |-> Str(body)]

CommentPool == <<
    Comment(6, 2, "et fugit", "Presley.Mueller@myrl.com", "doloribus at sed"),
    Comment(1, 1, "id labore", "Eliseo@gardner.biz", "laudantium enim quasi"),
    Comment(2, 1, "quo vero", "Jayne.Kuhic@sydney.com", "est natus enim"),
    Comment(11, 3, "Fugit labore", "Kariane@jadyn.tv", "ut dolorum nostrum") >>

\* the lists a caller builds over a pool: its first n records, n up to MaxLen
Prefixes(pool) ==
    {[i \in 1..n |-> i] : n \in 0..(IF MaxLen < Len(pool) THEN MaxLen ELSE Len(pool))}

\* arguments of the bookData calls; show is left at its default (the table is printed)
Limits == {None, Num(1)}
Shows == {TRUE}
Titles == {Str("catch"), Str(""), Num(22)}
Authors == {Str("LEE"), None}
Prices == {Num(629), Str("6.29")}
SortedBys == {Str("Author"), Str("Price"), Str("price"), Str("TITLE"), Str("ISBN")}

\* arguments of the commentData calls
Vars == {Str("postId"), Str("name"), Str("title")}
Values == {Num(1), Str("FUGIT")}
OverVars == {Str("postId"), Str("name")}
OverValues == {Num(0), Num(1)}
OverLimits == {None, Num(1)}
SortVars == {Str("postId"), Str("body"), Str("post_info")}
CommentLimits == {None, Num(0)}

\* results of the random generators: two of the times gen_rand_time returns, one
\* of the dates of gen_rand_date and one of the addresses of gen_rand_ip
gen_rand_time == {"00:00:00", "23:59:59"}
gen_rand_date == {"2010:01:01"}
gen_rand_ip == {"0.0.0.0"}

\* f"Time: {time}\nDate: {date}\nIP address: {ip}"
PostInfo(time, date, ip) == "Time: " \o time \o "\nDate: " \o date \o "\nIP address: " \o ip

PostInfos == {PostInfo(t, d, ip) : t \in gen_rand_time, d \in gen_rand_date, ip \in gen_rand_ip}

\* every text of the records and of the arguments
Texts ==
    {BookPool[i][f].v : i \in DOMAIN BookPool, f \in {"Title", "Author"}}
    \cup {CommentPool[i][f].v : i \in DOMAIN CommentPool, f \in {"name", "email", "body"}}
    \cup {a.v : a \in {x \in Titles \cup Authors \cup Prices \cup SortedBys \cup Vars
                              \cup Values \cup OverVars \cup OverValues \cup SortVars :
                          x.t = "str"}}

\* s.lower(), tabulated once for the texts of the model
Lowered == [s \in Texts |-> lower(s)] @@ <<>>

----------------------------------------------------------------------------
(* The heap of bookData / commentData instances *)

\* the elements of a list
Range(list) == {list[i] : i \in DOMAIN list}

\* dict.get(key), None when the key is absent
Get(d, key) == IF key \in DOMAIN d THEN d[key] ELSE None

\* the list an instance holds (self.books / self.comments)
Held(self) == lists[objs[self].ref]

\* list[:limit]
Slice(list, limit) ==
    IF limit.t = "none" THEN list
    ELSE IF limit.v >= 0 THEN SubSeq(list, 1, IF limit.v < Len(list) THEN limit.v ELSE Len(list))
    ELSE SubSeq(list, 1, Len(list) + limit.v)

\* a < b for two values of the records (numbers, or texts)
Less(a, b) == IF a.t = "str" THEN StrLess(a.v, b.v) ELSE a.v < b.v

\* sorted(list, key=lambda x: x[field], reverse=reverse): stable, by insertion;
\* a record goes after the records placed before it that do not come after it
RECURSIVE Insert(_, _, _, _)
Insert(done, r, field, reverse) ==
    IF done = <<>> THEN <<r>>
    ELSE LET h == Head(done)
             before == IF reverse THEN Less(recs[h][field], recs[r][field])
                       ELSE Less(recs[r][field], recs[h][field])
         IN IF before THEN <<r>> \o done
            ELSE <<h>> \o Insert(Tail(done), r, field, reverse)

RECURSIVE sortedLoop(_, _, _, _)
sortedLoop(list, k, field, reverse) ==
    IF k = 0 THEN <<>>
    ELSE Insert(sortedLoop(list, k - 1, field, reverse), list[k], field, reverse)

sorted(list, field, reverse) == sortedLoop(list, Len(list), field, reverse)

\* outcomes of a method besides Return and Raise: New builds an instance of the
\* receiver's class over a new list and returns it; Rebind binds the receiver's
\* attribute to a new list and returns the receiver; Mutate writes the records
\* and returns the receiver
New(items) == [k |-> "new", items |-> items]
Rebind(items) == [k |-> "rebind", items |-> items]
Mutate(dicts) == [k |-> "mutate", recs |-> dicts]

\* the step of the heap for a call with outcome out
Finish(op, self, args, out) ==
    /\ out.k \in {"new", "rebind"} => Len(lists) < MaxLists
    /\ lists' = IF out.k \in {"new", "rebind"} THEN Append(lists, out.items) ELSE lists
    /\ objs' = IF out.k = "new"
               THEN Append(objs, [cls |-> objs[self].cls, ref |-> Len(lists) + 1])
               ELSE IF out.k = "rebind"
               THEN [objs EXCEPT ![self].ref = Len(lists) + 1]
               ELSE objs
    /\ origin' = IF out.k = "new" THEN Append(origin, self) ELSE origin
    /\ call' = [op |-> op, self |-> self, args |-> args,
                ret |-> IF out.k = "new" THEN Return(Obj(Len(objs) + 1))
                        ELSE IF out.k \in {"rebind", "mutate"} THEN Return(Obj(self))
                        ELSE out]
    /\ recs' = IF out.k = "mutate" THEN out.recs ELSE recs
    /\ UNCHANGED <<input, tam, gc, df>>

Books == {i \in DOMAIN objs : objs[i].cls = "bookData"}
Comments == {i \in DOMAIN objs : objs[i].cls = "commentData"}

----------------------------------------------------------------------------
(* bookData *)

\* printAllBooks on a list: what it raises, or None when the table is printed
\* (callers discard the instance it returns)
printAllBooks(books, limit) ==
    IF books = <<>> THEN Return(None)
    ELSE IF \E i \in DOMAIN Slice(books, limit) : toISBN(recs[books[i]]["ISBN"].v).k = "raise"
    THEN Raise("ValueError")
    ELSE Return(None)

\* new_obj = bookData(items); if show: new_obj.printAllBooks(); return new_obj
ShowBooks(items, show) ==
    IF show /\ printAllBooks(items, None).k = "raise"
    THEN printAllBooks(items, None)
    ELSE New(items)

\* the loop of validateISBNs over books[k..]: the valid books, or the exception
\* valid raised
RECURSIVE validLoop(_, _)
validLoop(books, k) ==
    IF k > Len(books) THEN Return(<<>>)
    ELSE LET v == valid(recs[books[k]]["ISBN"].v)
             rest == validLoop(books, k + 1)
         IN IF v.k = "raise" THEN v
            ELSE IF rest.k = "raise" THEN rest
            ELSE Return((IF v.v.v THEN <<books[k]>> ELSE <<>>) \o rest.v)

\* validateISBNs keeping the books that fail the check
validateISBNs_inverted(self) ==
    Rebind(SelectSeq(Held(self), LAMBDA b : ~valid(recs[b]["ISBN"].v).v.v))

validateISBNs(self) ==
    LET r == validLoop(Held(self), 1)
    IN IF r.k = "raise" THEN r ELSE Rebind(r.v)

printByTitle(self, title, show) ==
    IF ~IsStr(title) THEN Raise("TypeError")
    ELSE ShowBooks(SelectSeq(Held(self),
                     LAMBDA b : Contains(Lowered[recs[b]["Title"].v], Lowered[title.v])), show)

printByAuthor(self, author, show) ==
    IF ~IsStr(author) THEN Raise("TypeError")
    ELSE ShowBooks(SelectSeq(Held(self),
                     LAMBDA b : Contains(Lowered[recs[b]["Author"].v], Lowered[author.v])), show)

\* printOverPrice keeping the books priced at the threshold too
printOverPrice_ge(self, price, show) ==
    IF ~IsNum(price) THEN Raise("TypeError")
    ELSE ShowBooks(SelectSeq(Held(self), LAMBDA b : recs[b]["Price"].v >= price.v), show)

printOverPrice(self, price, show) ==
    IF ~IsNum(price) THEN Raise("TypeError")
    ELSE ShowBooks(SelectSeq(Held(self), LAMBDA b : recs[b]["Price"].v > price.v), show)

\* printAllBooksSorted binding the sorted list to the receiver, as validateISBNs does
printAllBooksSorted_rebind(self, sortedBy, reverse_param, show, limit) ==
    IF ~IsStr(sortedBy) THEN Raise("AttributeError")
    ELSE IF Lowered[sortedBy.v] \notin {"price", "title", "author"} THEN Raise("ValueError")
    ELSE IF \E i \in DOMAIN Held(self) : sortedBy.v \notin DOMAIN recs[Held(self)[i]]
    THEN Raise("KeyError")
    ELSE Rebind(Slice(sorted(Held(self), sortedBy.v, reverse_param), limit))

printAllBooksSorted(self, sortedBy, reverse_param, show, limit) ==
    IF ~IsStr(sortedBy) THEN Raise("AttributeError")
    ELSE IF Lowered[sortedBy.v] \notin {"price", "title", "author"} THEN Raise("ValueError")
    ELSE IF \E i \in DOMAIN Held(self) : sortedBy.v \notin DOMAIN recs[Held(self)[i]]
    THEN Raise("KeyError")
    ELSE ShowBooks(Slice(sorted(Held(self), sortedBy.v, reverse_param), limit), show)

ValidateISBNs ==
    \E self \in Books :
        \E out \in {validateISBNs(self)} : Finish("validateISBNs", self, <<>>, out)

PrintByTitle ==
    \E self \in Books, title \in Titles, show \in Shows :
        \E out \in {printByTitle(self, title, show)} :
            Finish("printByTitle", self, <<title, Bool(show)>>, out)

PrintByAuthor ==
    \E self \in Books, author \in Authors, show \in Shows :
        \E out \in {printByAuthor(self, author, show)} :
            Finish("printByAuthor", self, <<author, Bool(show)>>, out)

PrintOverPrice ==
    \E self \in Books, price \in Prices, show \in Shows :
        \E out \in {printOverPrice(self, price, show)} :
            Finish("printOverPrice", self, <<price, Bool(show)>>, out)

PrintAllBooksSorted ==
    \E self \in Books, sortedBy \in SortedBys, reverse_param \in BOOLEAN, show \in Shows,
       limit \in Limits :
        \E out \in {printAllBooksSorted(self, sortedBy, reverse_param, show, limit)} :
            Finish("printAllBooksSorted", self,
                   <<sortedBy, Bool(reverse_param), Bool(show), limit>>, out)

\* books = [...]; bookData(books)
InitBooks ==
    /\ recs = BookPool
    /\ lists \in {<<q>> : q \in Prefixes(BookPool)}
    /\ objs = <<[cls |-> "bookData", ref |-> 1]>>
    /\ origin = <<0>>
    /\ input = ""
    /\ call = NoCall
    /\ tam = NoTam
    /\ gc = TRUE
    /\ df = NoDf

NextBooks ==
    \/ ValidateISBNs
    \/ PrintByTitle
    \/ PrintByAuthor
    \/ PrintOverPrice
    \/ PrintAllBooksSorted

----------------------------------------------------------------------------
(* commentData *)

\* printAllComments on a list: what it raises (reading the first record's keys
\* of an empty list), or None when the table is printed
printAllComments(comments, limit) ==
    IF comments = <<>> THEN Raise("IndexError") ELSE Return(None)

\* new_obj = commentData(items); if show: new_obj.printAllComments(); return new_obj
ShowComments(items, show) ==
    IF show /\ printAllComments(items, None).k = "raise"
    THEN printAllComments(items, None)
    ELSE New(items)

\* the keys of the first record (self.comments[0].keys())
comment_vars(self) == DOMAIN recs[Held(self)[1]]

printByVar(self, var, value, show) ==
    IF Held(self) = <<>> THEN Raise("IndexError")
    ELSE IF ~(IsStr(var) /\ var.v \in comment_vars(self)) THEN Raise("ValueError")
    ELSE IF \E i \in DOMAIN Held(self) :
                IsStr(Get(recs[Held(self)[i]], var.v)) /\ ~IsStr(value)
    THEN Raise("AttributeError")
    ELSE LET filtered_comments ==
                 SelectSeq(Held(self), LAMBDA c :
                     LET comment_value == Get(recs[c], var.v)
                     IN \/ IsStr(comment_value)
                           /\ Contains(Lowered[comment_value.v], Lowered[value.v])
                        \/ IsNum(comment_value) /\ IsNum(value)
                           /\ comment_value.v = value.v)
         IN IF filtered_comments # <<>> THEN ShowComments(filtered_comments, show)
            ELSE Return(Obj(self))

\* printOverVar returning the receiver when nothing is selected, as printByVar does
printOverVar_self(self, var, value, show, limit) ==
    IF Held(self) = <<>> THEN Raise("IndexError")
    ELSE IF ~(IsStr(var) /\ var.v \in comment_vars(self)
              /\ IsNum(recs[Held(self)[1]][var.v]))
    THEN Raise("ValueError")
    ELSE IF \E i \in DOMAIN Held(self) :
                ~IsNum(Get(recs[Held(self)[i]], var.v)) \/ ~IsNum(value)
    THEN Raise("TypeError")
    ELSE LET filtered_comments ==
                 Slice(SelectSeq(Held(self), LAMBDA c : recs[c][var.v].v > value.v), limit)
         IN IF filtered_comments # <<>> THEN ShowComments(filtered_comments, show)
            ELSE Return(Obj(self))

printOverVar(self, var, value, show, limit) ==
    IF Held(self) = <<>> THEN Raise("IndexError")
    ELSE IF ~(IsStr(var) /\ var.v \in comment_vars(self)
              /\ IsNum(recs[Held(self)[1]][var.v]))
    THEN Raise("ValueError")
    ELSE IF \E i \in DOMAIN Held(self) :
                ~IsNum(Get(recs[Held(self)[i]], var.v)) \/ ~IsNum(value)
    THEN Raise("TypeError")
    ELSE LET filtered_comments ==
                 Slice(SelectSeq(Held(self), LAMBDA c : recs[c][var.v].v > value.v), limit)
         IN IF filtered_comments # <<>> THEN ShowComments(filtered_comments, show)
            ELSE Return(None)

printCommentsSorted(self, sortVar, reverse_param, show, limit) ==
    IF Held(self) = <<>> THEN Raise("IndexError")
    ELSE IF ~(IsStr(sortVar) /\ sortVar.v \in comment_vars(self) \ {"body"})
    THEN Raise("ValueError")
    ELSE IF \E i \in DOMAIN Held(self) : sortVar.v \notin DOMAIN recs[Held(self)[i]]
    THEN Raise("KeyError")
    ELSE ShowComments(Slice(sorted(Held(self), sortVar.v, reverse_param), limit), show)

\* add_field, info giving the post_info generated for each record of the list;
\* when post_info is among the first record's keys the method falls off its end
add_field(self, info) ==
    IF Held(self) = <<>> THEN Raise("IndexError")
    ELSE IF "post_info" \in comment_vars(self) THEN Return(None)
    ELSE Mutate([r \in DOMAIN recs |->
                    IF \E i \in DOMAIN Held(self) : Held(self)[i] = r
                    THEN [key \in DOMAIN recs[r] \cup {"post_info"} |->
                             IF key = "post_info" THEN Str(info[r]) ELSE recs[r][key]]
                    ELSE recs[r]])

PrintByVar ==
    \E self \in Comments, var \in Vars, value \in Values, show \in Shows :
        \E out \in {printByVar(self, var, value, show)} :
            Finish("printByVar", self, <<var, value, Bool(show)>>, out)

PrintOverVar ==
    \E self \in Comments, var \in OverVars, value \in OverValues, show \in Shows,
       limit \in OverLimits :
        \E out \in {printOverVar(self, var, value, show, limit)} :
            Finish("printOverVar", self, <<var, value, Bool(show), limit>>, out)

PrintCommentsSorted ==
    \E self \in Comments, sortVar \in SortVars, reverse_param \in {FALSE}, show \in BOOLEAN,
       limit \in CommentLimits :
        \E out \in {printCommentsSorted(self, sortVar, reverse_param, show, limit)} :
            Finish("printCommentsSorted", self,
                   <<sortVar, Bool(reverse_param), Bool(show), limit>>, out)

AddField ==
    \E self \in Comments :
        \E info \in [{Held(self)[i] : i \in DOMAIN Held(self)} -> PostInfos] :
            \E out \in {add_field(self, info)} :
                Finish("add_field", self, <<>>, out)

\* comments = helperClass.get_url(...); commentData(comments)
InitComments ==
    /\ recs = CommentPool
    /\ lists \in {<<q>> : q \in Prefixes(CommentPool)}
    /\ objs = <<[cls |-> "commentData", ref |-> 1]>>
    /\ origin = <<0>>
    /\ input = ""
    /\ call = NoCall
    /\ tam = NoTam
    /\ gc = TRUE
    /\ df = NoDf

NextComments ==
    \/ PrintByVar
    \/ PrintOverVar
    \/ PrintCommentsSorted
    \/ AddField

----------------------------------------------------------------------------
(* The caller constructs a bookData or a commentData and calls its methods *)

Init == InitBooks \/ InitComments

Next == NextBooks \/ NextComments

Spec == Init /\ [][Next]_vars

----------------------------------------------------------------------------
(* TimeAndMemory (src/A2/A2.py): results, residuals and the measurement run *)

\* the rows of a results table: np.zeros(10), range(1, 11)
Rows == 10

\* a results DataFrame by its columns; Time (s) in microseconds
Table(size, time, memory) == [Size |-> size, Time |-> time, Memory |-> memory]

AlgorithmNames == {"mat_mult", "mat_mult_np", "sort_ints", "substring_inv", "python_find_inv"}

\* self.results as __init__ leaves it: the hard-coded tables
SeedResults ==
    [mat_mult |-> Table(
         <<15, 30, 45, 60, 75, 90, 105, 120, 135, 150>>,
         <<7217, 79013, 262462, 661467, 1452451, 2369175, 3473095, 5244003, 7414388,
           10134657>>,
         <<69632, 77824, 118784, 147456, 200704, 241664, 430080, 483328, 544768, 610304>>),
     mat_mult_np |-> Table(
         <<500, 1000, 1500, 2000, 2500, 3000, 3500, 4000, 4500, 5000>>,
         <<30703, 121913, 309546, 597226, 994957, 1622734, 2379991, 3268138, 4443916,
           5982008>>,
         <<2097152, 5853184, 8491008, 9031680, 10604544, 12177408, 13692928, 15065088,
           16896000, 18468864>>),
     sort_ints |-> Table(
         <<400, 800, 1200, 1600, 2000, 2400, 2800, 3200, 3600, 4000>>,
         <<82925, 200214, 451068, 997305, 1469594, 3735391, 4827899, 6239969, 8044682,
           9797529>>,
         <<40960, 40960, 40960, 40960, 40960, 40960, 57344, 57344, 57344, 77824>>),
     substring_inv |-> Table(
         <<1000, 2000, 3000, 4000, 5000, 6000, 7000, 8000, 9000, 10000>>,
         <<1513, 2078, 3120, 4072, 5971, 7802, 8427, 9420, 10666, 11602>>,
         <<163840, 299008, 413696, 528384, 638976, 733184, 901120, 995328, 1175552,
           1269760>>),
     python_find_inv |-> Table(
         <<1000, 2000, 3000, 4000, 5000, 6000, 7000, 8000, 9000, 10000>>,
         <<2591, 2223, 4204, 6453, 4950, 5067, 9603, 9444, 7722, 8916>>,
         <<163840, 307200, 425984, 532480, 679936, 798720, 888832, 999424, 1142784,
           1282048>>)]

\* dict[key] = value
Put(dict, key, value) == (key :> value) @@ dict

\* what a run measures: the elapsed times, and the growth of the resident memory
\* (none at all, or a page per row)
Elapsed == {[i \in 1..Rows |-> i]}
RamDeltas == {[i \in 1..Rows |-> 0], [i \in 1..Rows |-> 4096 * i]}

\* the table a run with step_size builds
Measured(step_size, resTime, resSpace) ==
    Table([i \in 1..Rows |-> i * step_size], resTime, resSpace)

\* the functions investigated: raisesAt is the call at which the function raises,
\* 0 when it never does
Functions == {[raisesAt |-> 0], [raisesAt |-> 3]}

StepSizes == {10, 50}
\* the names measured, stored and plotted under
LiveNames == {"mat_mult", "dummy_func"}

\* arguments of investigate: live runs under LiveNames, look-ups under any name
InvestigateArgs ==
    {[function |-> f, name |-> n, step_size |-> st, submission |-> FALSE] :
         f \in Functions, n \in LiveNames, st \in StepSizes}
    \cup {[function |-> f, name |-> n, step_size |-> 10, submission |-> TRUE] :
              f \in Functions, n \in AlgorithmNames \cup {"dummy_func"}}

\* the tables a caller passes to save_results
Frames == {Measured(50, t, m) : t \in Elapsed, m \in RamDeltas}

Variables == {"time", "memory", "cpu"}
ExpRels == {"cubic", "linear", "log"}

\* a list of method names
List(items) == [t |-> "list", v |-> items]
Methods ==
    {None, Str("mat_mult"), List(<<>>), List(<<"mat_mult">>),
     List(<<"mat_mult", "dummy_func">>)}

\* self.results after save_results(name, func_df); the ValueError of the else
\* branch is constructed and dropped, the method returns None either way
save_results(name, func_df) ==
    IF name \in AlgorithmNames THEN Put(tam.results, name, func_df) ELSE tam.results

\* investigate: its outcome, self.results and the garbage collection switch
\* after it, the sizes function was called with, and whether the seed was reset
investigate(function, name, step_size, submission, resTime, resSpace) ==
    IF submission
    THEN [ret |-> IF name \in DOMAIN tam.results THEN Return(tam.results[name])
                  ELSE Raise("ValueError"),
          results |-> tam.results, gc |-> gc, calls |-> <<>>, seeded |-> FALSE]
    ELSE IF function.raisesAt \in 1..Rows
    THEN [ret |-> Raise("Exception"), results |-> tam.results, gc |-> FALSE,
          calls |-> [i \in 1..function.raisesAt |-> i * step_size], seeded |-> TRUE]
    ELSE LET func_df == Measured(step_size, resTime, resSpace)
         IN [ret |-> Return(func_df), results |-> save_results(name, func_df), gc |-> TRUE,
             calls |-> [i \in 1..Rows |-> i * step_size], seeded |-> TRUE]

Max(column) == CHOOSE x \in Range(column) : \A y \in Range(column) : y <= x

\* the residual series plots computes from a table
Residuals(table, variable, exp_rel) == [of |-> table, variable |-> variable, exp_rel |-> exp_rel]

\* plots storing the residual series under the key before it tells a recognised
\* variable from an unrecognised one
plots_store_first(name, variable, exp_rel) ==
    IF name \notin DOMAIN tam.results
    THEN [ret |-> Raise("KeyError"), residuals |-> tam.residuals]
    ELSE IF exp_rel \notin {"cubic", "quadratic", "linear"}
    THEN [ret |-> Raise("ValueError"), residuals |-> tam.residuals]
    ELSE [ret |-> IF variable \in {"time", "memory"} THEN Return(None)
                  ELSE Raise("ValueError"),
          residuals |-> Put(tam.residuals, <<name, variable>>,
                            Residuals(tam.results[name], variable, exp_rel))]

\* plots: its outcome and self.residuals after it.  extract_vars raises KeyError
\* for an unknown name; normalise raises ValueError when the measured column has
\* maximum 0
plots(name, variable, exp_rel) ==
    IF name \notin DOMAIN tam.results
    THEN [ret |-> Raise("KeyError"), residuals |-> tam.residuals]
    ELSE IF exp_rel \notin {"cubic", "quadratic", "linear"}
    THEN [ret |-> Raise("ValueError"), residuals |-> tam.residuals]
    ELSE IF variable \in {"time", "memory"}
    THEN LET measured == IF variable = "time" THEN tam.results[name].Time
                         ELSE tam.results[name].Memory
         IN IF Max(measured) = 0
            THEN [ret |-> Raise("ValueError"), residuals |-> tam.residuals]
            ELSE [ret |-> Return(None),
                  residuals |-> Put(tam.residuals, <<name, variable>>,
                                    Residuals(tam.results[name], variable, exp_rel))]
    ELSE [ret |-> Raise("ValueError"), residuals |-> tam.residuals]

\* the loop of plot_residuals over methods[k..] when there is not exactly one
RECURSIVE plotEach(_, _, _)
plotEach(methods, k, variable) ==
    IF k > Len(methods) THEN Return(None)
    ELSE IF <<methods[k], variable>> \in DOMAIN tam.residuals
    THEN plotEach(methods, k + 1, variable)
    ELSE Raise("KeyError")

\* plot_residuals: the single-method branch formats the title with `name`, which
\* is bound nowhere
plot_residuals(variable, methods) ==
    IF methods = None THEN Raise("ValueError")
    ELSE LET list == IF IsStr(methods) THEN <<methods.v>> ELSE methods.v
         IN IF Len(list) = 1
            THEN (IF <<list[1], variable>> \in DOMAIN tam.residuals THEN Raise("NameError")
                  ELSE Raise("KeyError"))
            ELSE plotEach(list, 1, variable)

SameHeap == UNCHANGED <<recs, lists, objs, origin, input, df>>

Investigate ==
    \E a \in InvestigateArgs, resTime \in Elapsed, resSpace \in RamDeltas :
        \E out \in {investigate(a.function, a.name, a.step_size, a.submission,
                                 resTime, resSpace)} :
            /\ tam' = [tam EXCEPT !.results = out.results]
            /\ gc' = out.gc
            /\ call' = [op |-> "investigate", self |-> 0,
                        args |-> <<a.function, Str(a.name), Num(a.step_size),
                                   Bool(a.submission)>>,
                        ret |-> out.ret, calls |-> out.calls, seeded |-> out.seeded]
            /\ SameHeap

SaveResults ==
    \E name \in LiveNames, func_df \in Frames :
        /\ tam' = [tam EXCEPT !.results = save_results(name, func_df)]
        /\ call' = [op |-> "save_results", self |-> 0, args |-> <<Str(name), func_df>>,
                    ret |-> Return(None)]
        /\ UNCHANGED gc
        /\ SameHeap

Plots ==
    \E name \in LiveNames, variable \in Variables, exp_rel \in ExpRels :
        \E out \in {plots(name, variable, exp_rel)} :
            /\ tam' = [tam EXCEPT !.residuals = out.residuals]
            /\ call' = [op |-> "plots", self |-> 0,
                        args |-> <<Str(name), Str(variable), Str(exp_rel)>>, ret |-> out.ret]
            /\ UNCHANGED gc
            /\ SameHeap

PlotResiduals ==
    \E variable \in Variables, methods \in Methods :
        /\ call' = [op |-> "plot_residuals", self |-> 0, args |-> <<Str(variable), methods>>,
                    ret |-> plot_residuals(variable, methods)]
        /\ UNCHANGED <<tam, gc>>
        /\ SameHeap

\* tam = TimeAndMemory()
InitTam ==
    /\ recs = <<>>
    /\ lists = <<>>
    /\ objs = <<>>
    /\ origin = <<>>
    /\ input = ""
    /\ call = NoCall
    /\ tam = [results |-> SeedResults, residuals |-> <<>>]
    /\ gc = TRUE
    /\ df = NoDf

NextTam ==
    \/ Investigate
    \/ SaveResults
    \/ Plots
    \/ PlotResiduals

SpecTam == InitTam /\ [][NextTam]_vars

----------------------------------------------------------------------------
(* TimeAndMemory.calc_sf applied to one table *)

\* the rows of the tables calc_sf is applied to, besides the hard-coded ones
SfRows == 3

RECURSIVE Gcd(_, _)
Gcd(a, b) == IF b = 0 THEN a ELSE Gcd(b, a % b)

\* the number n / d (n >= 0, d > 0) in lowest terms; the floats of the code are
\* modelled by exact fractions
Frac(n, d) == [n |-> n \div Gcd(n, d), d |-> d \div Gcd(n, d)]

FracAdd(a, b) ==
    LET l == (a.d \div Gcd(a.d, b.d)) * b.d
    IN Frac(a.n * (l \div a.d) + b.n * (l \div b.d), l)

FracMul(a, b) == LET x == Frac(a.n, b.d) y == Frac(b.n, a.d) IN Frac(x.n * y.n, x.d * y.d)

\* a / b for b # 0
FracDiv(a, b) == FracMul(a, [n |-> b.d, d |-> b.n])

\* a ** exp
RECURSIVE FracPow(_, _)
FracPow(a, exp) == IF exp = 0 THEN Frac(1, 1) ELSE FracMul(a, FracPow(a, exp - 1))

\* float('nan'): np.mean of an empty list
NaN == [t |-> "nan"]

\* np.mean(values)
RECURSIVE FracSum(_)
FracSum(values) ==
    IF values = <<>> THEN Frac(0, 1) ELSE FracAdd(Head(values), FracSum(Tail(values)))

mean(values) ==
    IF values = <<>> THEN NaN ELSE FracDiv(FracSum(values), Frac(Len(values), 1))

\* the loop of calc_sf skipping the pairs whose later value is zero as well
RECURSIVE sfLoop_skip_zero(_, _, _, _)
sfLoop_skip_zero(size, variable, exp, i) ==
    IF i > Len(size) THEN <<>>
    ELSE LET size1 == size[i - 1]
             size2 == size[i]
             var1 == variable[i - 1]
             var2 == variable[i]
         IN IF size1 = 0 \/ var1 = 0 \/ var2 = 0
            THEN sfLoop_skip_zero(size, variable, exp, i + 1)
            ELSE IF var1 = var2 THEN sfLoop_skip_zero(size, variable, exp, i + 1)
            ELSE <<FracDiv(Frac(var2, 1),
                           FracMul(FracPow(Frac(size2, size1), exp), Frac(var1, 1)))>>
                 \o sfLoop_skip_zero(size, variable, exp, i + 1)

\* the loop of calc_sf over range(i, len(size)), rows counted from 1: the
\* scale factors appended
RECURSIVE sfLoop(_, _, _, _)
sfLoop(size, variable, exp, i) ==
    IF i > Len(size) THEN <<>>
    ELSE LET size1 == size[i - 1]
             size2 == size[i]
             var1 == variable[i - 1]
             var2 == variable[i]
         IN IF size1 = 0 \/ var1 = 0 THEN sfLoop(size, variable, exp, i + 1)
            ELSE IF var1 = var2 THEN sfLoop(size, variable, exp, i + 1)
            ELSE <<FracDiv(Frac(var2, 1),
                           FracMul(FracPow(Frac(size2, size1), exp), Frac(var1, 1)))>>
                 \o sfLoop(size, variable, exp, i + 1)

\* calc_sf: its outcome, and the number of scale factors it reports having used
calc_sf(name, relationship, var_type) ==
    IF name \notin DOMAIN tam.results THEN [ret |-> Raise("ValueError"), used |-> 0]
    ELSE IF var_type \notin {"time", "memory"} THEN [ret |-> Raise("ValueError"), used |-> 0]
    ELSE IF relationship \notin {"cubic", "quadratic", "linear"}
    THEN [ret |-> Raise("ValueError"), used |-> 0]
    ELSE LET variable == IF var_type = "time" THEN tam.results[name].Time
                         ELSE tam.results[name].Memory
             size == tam.results[name].Size
             exp == IF relationship = "cubic" THEN 3
                    ELSE IF relationship = "quadratic" THEN 2 ELSE 1
             scale_factors == sfLoop(size, variable, exp, 2)
         IN [ret |-> Return(mean(scale_factors)), used |-> Len(scale_factors)]

\* the columns of measurements of the example tables
SfValues == {0, 1, 2, 3}
SfColumns == [1..SfRows -> SfValues]
\* step sizes of the example tables; 0 gives a Size column of zeros
SfSteps == {0, 1, 2}

\* the tables stored under 'example_func': Time one column of measurements,
\* Memory the same measurements in reverse
ExampleTables ==
    {Table([i \in 1..SfRows |-> i * st], col, [i \in 1..SfRows |-> col[SfRows + 1 - i]]) :
         st \in SfSteps, col \in SfColumns}

Relationships == {"cubic", "quadratic", "linear", "log"}

\* arguments of calc_sf: any on the example table, the memory column of the
\* hard-coded sort_ints table, and a name without results
SfInputs ==
    {[name |-> "example_func", relationship |-> r, var_type |-> v] :
         r \in Relationships, v \in Variables}
    \cup {[name |-> "sort_ints", relationship |-> r, var_type |-> v] :
              r \in Relationships, v \in {"memory", "cpu"}}
    \cup {[name |-> "dummy_func", relationship |-> "linear", var_type |-> "time"]}

\* tam = TimeAndMemory(); tam.results['example_func'] = pd.DataFrame({...})
InitSf ==
    /\ recs = <<>>
    /\ lists = <<>>
    /\ objs = <<>>
    /\ origin = <<>>
    /\ input \in SfInputs
    /\ call = NoCall
    /\ \E table \in ExampleTables :
           tam = [results |-> Put(SeedResults, "example_func", table), residuals |-> <<>>]
    /\ gc = TRUE
    /\ df = NoDf

CallCalcSf ==
    /\ call.op = "none"
    /\ \E out \in {calc_sf(input.name, input.relationship, input.var_type)} :
           call' = [op |-> "calc_sf", self |-> 0,
                    args |-> <<Str(input.name), Str(input.relationship), Str(input.var_type)>>,
                    ret |-> out.ret, used |-> out.used]
    /\ UNCHANGED <<recs, lists, objs, origin, input, tam, gc, df>>

NextSf == CallCalcSf

SpecSf == InitSf /\ [][NextSf]_vars

----------------------------------------------------------------------------
(* CleanerClass (A2): the DataFrame self.df and the cleaning operations.    *)
(* A DataFrame is [columns, rows]: columns the labels in order, rows the    *)
(* sequence of [index, cells], cells mapping each column to a value.        *)
(* A value is NaN, a number Num(q) with q an exact fraction, or a string.   *)

\* most rows of the datasets a CleanerClass is constructed with
DfRows == 2

\* a numeric cell
Cell(n) == Num(Frac(n, 1))

IsNaN(v) == v.t = "nan"

\* the columns of the datasets: a textual column g and numeric columns x, y
Groups == {Str("a"), Str("b")}
XValues == {NaN, Cell(0), Cell(2)}
YValues == {NaN, Cell(-1)}

CleanerRows == {[g |-> a, x |-> b, y |-> c] : a \in Groups, b \in XValues, c \in YValues}

\* df.reset_index(drop=True)
reset_index(rows) == [i \in DOMAIN rows |-> [index |-> i - 1, cells |-> rows[i].cells]]

\* the datasets read from a file: a RangeIndex over the rows
Datasets ==
    UNION {{[columns |-> <<"g", "x", "y">>,
             rows |-> [i \in 1..n |-> [index |-> i - 1, cells |-> rs[i]]]] :
                rs \in [1..n -> CleanerRows]} : n \in 0..DfRows}

\* df[cols]
Select(self, cols) ==
    [columns |-> cols,
     rows |-> [i \in DOMAIN self.rows |->
                   [index |-> self.rows[i].index,
                    cells |-> [c \in Range(cols) |-> self.rows[i].cells[c]]]]]

\* count_removed_rows(df1, df2), of which only len(df1) and len(df2) are read
count_removed_rows(df1_len, df2_len) ==
    IF df1_len < df2_len
    THEN \* the message is built from the unbound names original_len and new_len
         Raise("NameError")
    ELSE IF df1_len = 0
    THEN Raise("ZeroDivisionError")
    ELSE LET removed_rows == df1_len - df2_len
         IN Return([removed_rows |-> removed_rows,
                    \* round(removed_rows / df1_len * 100, 2), in hundredths
                    perc_removed |-> (20000 * removed_rows + df1_len) \div (2 * df1_len)])

\* the tail shared by the row filters: print(self.count_removed_rows(self.df,
\* new)); self.df = new; return self
Replace(self, rows) ==
    LET counted == count_removed_rows(Len(self.rows), Len(rows))
    IN IF counted.k = "raise"
       THEN [ret |-> counted, df |-> self]
       ELSE [ret |-> Return(Str("self")), df |-> [columns |-> self.columns, rows |-> reset_index(rows)]]

\* a < b in sort_values: missing values last
KeyLess(a, b) ==
    IF IsNaN(a) THEN FALSE
    ELSE IF IsNaN(b) THEN TRUE
    ELSE IF a.t = "str" THEN StrLess(a.v, b.v)
    ELSE a.v.n * b.v.d < b.v.n * a.v.d

\* df.sort_values(by=col): quicksort is not stable, so any order of the rows
\* that is ascending in col
sort_values(rows, col) ==
    LET n == Len(rows)
        Perms == {p \in [1..n -> 1..n] : \A i, j \in 1..n : i # j => p[i] # p[j]}
    IN {[i \in 1..n |-> rows[p[i]]] :
            p \in {q \in Perms : \A i, j \in 1..n :
                       i < j => ~KeyLess(rows[q[j]].cells[col], rows[q[i]].cells[col])}}

\* col_order_sort(col_order, col_to_sort): the outcomes [ret, df]
col_order_sort(self, col_order, col_to_sort) ==
    IF \E i \in DOMAIN col_order : col_order[i] \notin Range(self.columns)
    THEN {[ret |-> Raise("ValueError"), df |-> self]}
    ELSE LET ordered == Select(self, col_order)
         IN IF col_to_sort \in {None, Str("")}
            THEN {[ret |-> Return(Str("self")), df |-> ordered]}
            ELSE IF col_to_sort.v \in Range(ordered.columns)
            THEN {[ret |-> Return(Str("self")),
                   df |-> [columns |-> col_order, rows |-> reset_index(rows)]] :
                      rows \in sort_values(ordered.rows, col_to_sort.v)}
            ELSE {[ret |-> Raise("ValueError"), df |-> ordered]}

\* pd.to_numeric(value, errors='coerce')
coerce(v) == IF v.t = "num" THEN v ELSE NaN

\* to_numeric(cols)
to_numeric(self, cols) ==
    IF \E i \in DOMAIN cols : cols[i] \notin Range(self.columns)
    THEN [ret |-> Raise("ValueError"), df |-> self]
    ELSE LET chosen == Select(self, cols)
         IN [ret |-> Return(Str("self")),
             df |-> [columns |-> cols,
                     rows |-> [i \in DOMAIN chosen.rows |->
                                   [index |-> chosen.rows[i].index,
                                    cells |-> [c \in Range(cols) |->
                                                   coerce(chosen.rows[i].cells[c])]]]]]

\* drop_missing_adjustment(col_pair1, col_pair2), both tuples
drop_missing_adjustment(self, col_pair1, col_pair2) ==
    IF Len(col_pair1) # 2 \/ Len(col_pair2) # 2
    THEN [ret |-> Raise("ValueError"), df |-> self]
    ELSE IF \E col \in Range(col_pair1 \o col_pair2) : col \notin Range(self.columns)
    THEN [ret |-> Raise("ValueError"), df |-> self]
    ELSE LET combined(cells) ==
                 \/ ~IsNaN(cells[col_pair1[1]]) /\ IsNaN(cells[col_pair1[2]])
                 \/ ~IsNaN(cells[col_pair2[1]]) /\ IsNaN(cells[col_pair2[2]])
             keep(cells) == ~combined(cells)
         IN Replace(self, SelectSeq(self.rows, LAMBDA r : keep(r.cells)))

\* the validation of col_to_ignore shared by rm_empty_rows and rm_zero_rows:
\* the columns to check, or <<>> paired with the error
Checked(self, col_to_ignore) ==
    IF col_to_ignore \in {None, Str("")}
    THEN [ok |-> TRUE, cols |-> Range(self.columns)]
    ELSE IF col_to_ignore.v \notin Range(self.columns)
    THEN [ok |-> FALSE, cols |-> {}]
    ELSE [ok |-> TRUE, cols |-> Range(self.columns) \ {col_to_ignore.v}]

\* rm_empty_rows(col_to_ignore)
rm_empty_rows(self, col_to_ignore) ==
    LET col_subset == Checked(self, col_to_ignore)
        keep(cells) == \E c \in col_subset.cols : ~IsNaN(cells[c])
    IN IF ~col_subset.ok
       THEN [ret |-> Raise("ValueError"), df |-> self]
       ELSE Replace(self, SelectSeq(self.rows, LAMBDA r : keep(r.cells)))

\* rm_zero_rows(col_to_ignore)
rm_zero_rows(self, col_to_ignore) ==
    LET temp_df == Checked(self, col_to_ignore)
        mask(cells) == \E c \in temp_df.cols : ~(cells[c].t = "num" /\ cells[c].v.n = 0)
    IN IF ~temp_df.ok
       THEN [ret |-> Raise("ValueError"), df |-> self]
       ELSE Replace(self, SelectSeq(self.rows, LAMBDA r : mask(r.cells)))

\* rm_unmatched_signs(col1, col2, col3, col4)
rm_unmatched_signs(self, col1, col2, col3, col4) ==
    LET pos(v) == v.t = "num" /\ v.v.n > 0
        neg(v) == v.t = "num" /\ v.v.n < 0
        unmatched(cells) ==
            \/ pos(cells[col1]) /\ neg(cells[col3])
            \/ neg(cells[col1]) /\ pos(cells[col3])
            \/ pos(cells[col2]) /\ neg(cells[col4])
            \/ neg(cells[col2]) /\ pos(cells[col4])
        keep(cells) == ~unmatched(cells)
    IN IF \E col \in {col1, col2, col3, col4} : col \notin Range(self.columns)
       THEN [ret |-> Raise("ValueError"), df |-> self]
       ELSE IF \E i \in DOMAIN self.rows, col \in {col1, col2, col3, col4} :
                   self.rows[i].cells[col].t = "str"
       THEN \* '>' between a str and an int
            [ret |-> Raise("TypeError"), df |-> self]
       ELSE Replace(self, SelectSeq(self.rows, LAMBDA r : keep(r.cells)))

\* df.groupby(group)[col].transform('mean') at one row: the mean of the
\* non-missing values of col over the rows of the same group; rows whose group
\* is missing belong to no group
group_mean(rows, group, col, cells) ==
    LET members == SelectSeq(rows, LAMBDA r : /\ r.cells[group] = cells[group]
                                              /\ ~IsNaN(r.cells[col]))
        m == mean([i \in DOMAIN members |-> members[i].cells[col].v])
    IN IF IsNaN(cells[group]) \/ members = <<>> THEN NaN ELSE Num(m)

\* self.df[col] = self.df[col].fillna(col_mean)
fillna(self, group, col) ==
    [columns |-> self.columns,
     rows |-> [i \in DOMAIN self.rows |->
                   [index |-> self.rows[i].index,
                    cells |-> [c \in DOMAIN self.rows[i].cells |->
                                   IF c = col /\ IsNaN(self.rows[i].cells[c])
                                   THEN group_mean(self.rows, group, col, self.rows[i].cells)
                                   ELSE self.rows[i].cells[c]]]]]

\* for col in cols: ...
RECURSIVE fillLoop(_, _, _, _)
fillLoop(self, group, cols, k) ==
    IF k > Len(cols) THEN self ELSE fillLoop(fillna(self, group, cols[k]), group, cols, k + 1)

\* replace_missing_values(group, cols), group a string and cols a list of
\* names of numeric columns
replace_missing_values(self, group, cols) ==
    IF group \notin Range(self.columns)
    THEN [ret |-> Raise("ValueError"), df |-> self]
    ELSE IF \E i \in DOMAIN cols : cols[i] \notin Range(self.columns)
    THEN [ret |-> Raise("ValueError"), df |-> self]
    ELSE LET filled == fillLoop(self, group, cols, 1)
         IN IF Len(cols) < 2
            THEN \* the message printed after the loop reads cols[0] and cols[1]
                 [ret |-> Raise("IndexError"), df |-> filled]
            ELSE [ret |-> Return(Str("self")), df |-> filled]

\* arguments of the calls
ColOrders == {<<"g", "x", "y">>, <<"y", "x", "g">>, <<"x", "g">>, <<"x", "z">>}
SortCols == {None, Str("x"), Str("g"), Str("y"), Str("z")}
NumericCols == {<<"x", "y">>, <<"x", "g">>, <<"z">>}
ColPairs == {<<"x", "y">>, <<"y", "x">>, <<"x", "z">>, <<"x">>}
Ignored == {None, Str("g"), Str("z")}
SignCols == {<<"x", "y", "y", "x">>, <<"x", "x", "y", "y">>, <<"x", "y", "z", "x">>,
             <<"g", "y", "x", "y">>}
GroupCols == {"g", "z"}
FillCols == {<<"x", "y">>, <<"x">>, <<"y", "x", "y">>, <<"x", "z">>}
\* row counts of the two DataFrames handed to count_removed_rows
RowCounts == {0, 1, 3, 10, 12}

\* one call of a CleanerClass method: records it and rebinds self.df
Cleaned(op, args, out) ==
    /\ call' = [op |-> op, self |-> 0, args |-> args, ret |-> out.ret]
    /\ df' = out.df
    /\ UNCHANGED <<recs, lists, objs, origin, input, tam, gc>>

ColOrderSort ==
    \E col_order \in ColOrders, col_to_sort \in SortCols :
        \E out \in col_order_sort(df, col_order, col_to_sort) :
            Cleaned("col_order_sort", <<col_order, col_to_sort>>, out)

ToNumeric ==
    \E cols \in NumericCols : Cleaned("to_numeric", <<cols>>, to_numeric(df, cols))

DropMissingAdjustment ==
    \E col_pair1 \in ColPairs, col_pair2 \in ColPairs :
        Cleaned("drop_missing_adjustment", <<col_pair1, col_pair2>>,
                drop_missing_adjustment(df, col_pair1, col_pair2))

CountRemovedRows ==
    \E df1_len \in RowCounts, df2_len \in RowCounts :
        Cleaned("count_removed_rows", <<df1_len, df2_len>>,
                [ret |-> count_removed_rows(df1_len, df2_len), df |-> df])

RmEmptyRows ==
    \E col_to_ignore \in Ignored :
        Cleaned("rm_empty_rows", <<col_to_ignore>>, rm_empty_rows(df, col_to_ignore))

RmZeroRows ==
    \E col_to_ignore \in Ignored :
        Cleaned("rm_zero_rows", <<col_to_ignore>>, rm_zero_rows(df, col_to_ignore))

RmUnmatchedSigns ==
    \E c \in SignCols :
        Cleaned("rm_unmatched_signs", c, rm_unmatched_signs(df, c[1], c[2], c[3], c[4]))

ReplaceMissingValues ==
    \E group \in GroupCols, cols \in FillCols :
        Cleaned("replace_missing_values", <<group, cols>>,
                replace_missing_values(df, group, cols))

\* cleaner = CleanerClass(df)
InitCleaner ==
    /\ recs = <<>>
    /\ lists = <<>>
    /\ objs = <<>>
    /\ origin = <<>>
    /\ input = ""
    /\ call = NoCall
    /\ tam = NoTam
    /\ gc = TRUE
    /\ df \in Datasets

NextCleaner ==
    \/ ColOrderSort
    \/ ToNumeric
    \/ DropMissingAdjustment
    \/ CountRemovedRows
    \/ RmEmptyRows
    \/ RmZeroRows
    \/ RmUnmatchedSigns
    \/ ReplaceMissingValues

SpecCleaner == InitCleaner /\ [][NextCleaner]_vars

----------------------------------------------------------------------------
(* TimeAndMemory.substring_check (A2) *)

\* for i in range(len(string) - len(substring) + 1), from index i on: whether a
\* slice string[i : i + len(substring)] equals substring
RECURSIVE checkLoop(_, _, _)
checkLoop(string, substring, i) ==
    IF i >= Len(string) - Len(substring) + 1 THEN FALSE
    ELSE IF SubSeq(string, i + 1, i + Len(substring)) = substring THEN TRUE
    ELSE checkLoop(string, substring, i + 1)

\* the method with a loop over range(len(string) - len(substring))
substring_check_short(string, substring) ==
    IF ~IsStr(string) \/ ~IsStr(substring) THEN Raise("ValueError")
    ELSE IF string.v = "" \/ substring.v = "" THEN Raise("ValueError")
    ELSE IF Len(substring.v) > Len(string.v) THEN Return(Bool(FALSE))
    ELSE Return(Bool(checkLoop(SubSeq(string.v, 1, Len(string.v) - 1), substring.v, 0)))

substring_check(string, substring) ==
    IF ~IsStr(string) \/ ~IsStr(substring) THEN Raise("ValueError")
    ELSE IF string.v = "" \/ substring.v = "" THEN Raise("ValueError")
    ELSE IF Len(substring.v) > Len(string.v) THEN Return(Bool(FALSE))
    ELSE Return(Bool(checkLoop(string.v, substring.v, 0)))

\* the arguments of substring_check: the strings of two letters up to MaxText
\* long, the empty string included, and values that are not strings
SubstringArgs == {Str(t) : t \in TextsOver({"a", "b"}, MaxText)} \cup {Num(1), None}

InitSubstring ==
    /\ NoHeap
    /\ input \in [string : SubstringArgs, substring : SubstringArgs]
    /\ call = NoCall

CallSubstringCheck ==
    /\ call.op = "none"
    /\ call' = [op |-> "substring_check", self |-> 0, args |-> <<input.string, input.substring>>,
                ret |-> substring_check(input.string, input.substring)]
    /\ UNCHANGED <<recs, lists, objs, origin, input, tam, gc, df>>

NextSubstring == CallSubstringCheck

SpecSubstring == InitSubstring /\ [][NextSubstring]_vars

----------------------------------------------------------------------------
(* helperClass.wrap_text (A3), one loop iteration per step.  The frame of   *)
(* the call is held in `input`: [pc, text, width, words, k, word, lines,    *)
(* current_line], with words[k] the word the for loop is at.                *)

\* the widths of the stepped calls, zero and a negative width included
WrapWidths == {-1, 0} \cup 1..MaxWidth

\* the most lines a frame may hold: more than any call that leaves its loops
\* appends (at most one line per character and one leftover line)
MaxLines == MaxText + 2

\* word[:width]
Prefix(word, width) ==
    LET stop == IF width < 0 THEN (IF Len(word) + width < 0 THEN 0 ELSE Len(word) + width)
                ELSE (IF width > Len(word) THEN Len(word) ELSE width)
    IN SubSeq(word, 1, stop)

\* word[width:]
Suffix(word, width) ==
    LET start == IF width < 0 THEN (IF Len(word) + width < 0 THEN 0 ELSE Len(word) + width)
                 ELSE (IF width > Len(word) THEN Len(word) ELSE width)
    IN SubSeq(word, start + 1, Len(word))

WrapFrames ==
    {[pc |-> "call", text |-> Str(t), width |-> Num(w), words |-> <<>>, k |-> 0,
      word |-> "", lines |-> <<>>, current_line |-> ""] :
         t \in TextsOver({"a", " "}, MaxText), w \in WrapWidths}
    \cup {[pc |-> "call", text |-> Num(10), width |-> Num(2), words |-> <<>>, k |-> 0,
           word |-> "", lines |-> <<>>, current_line |-> ""]}

InitWrapSteps ==
    /\ NoHeap
    /\ input \in WrapFrames
    /\ call = NoCall

\* the type check, then text.replace, text.split and the empty lines
WrapEnter ==
    /\ input.pc = "call"
    /\ IF ~IsStr(input.text) \/ input.width.t # "num"
       THEN /\ input' = [input EXCEPT !.pc = "done"]
            /\ call' = [op |-> "wrap_text", self |-> 0, args |-> <<input.text, input.width>>,
                        ret |-> Raise("TypeError")]
       ELSE /\ input' = [input EXCEPT !.pc = "for", !.k = 1,
                                      !.words = split(replace(input.text.v, "\n", " "), "")]
            /\ UNCHANGED call
    /\ UNCHANGED <<recs, lists, objs, origin, tam, gc, df>>

\* for word in words: the next word
WrapNextWord ==
    /\ input.pc = "for"
    /\ input.k <= Len(input.words)
    /\ input' = [input EXCEPT !.pc = "while", !.word = input.words[input.k]]
    /\ UNCHANGED <<recs, lists, objs, origin, call, tam, gc, df>>

\* one iteration of while len(word) > width
WrapWhile ==
    /\ input.pc = "while"
    /\ Len(input.word) > input.width.v
    /\ Len(input.lines) < MaxLines
    /\ input' = [input EXCEPT !.lines = Append(input.lines, Prefix(input.word, input.width.v)),
                              !.word = Suffix(input.word, input.width.v)]
    /\ UNCHANGED <<recs, lists, objs, origin, call, tam, gc, df>>

\* the word joins the current line or starts the next one
WrapFit ==
    /\ input.pc = "while"
    /\ ~(Len(input.word) > input.width.v)
    /\ IF Len(input.current_line) + Len(input.word) + 1 <= input.width.v
       THEN input' = [input EXCEPT
                          !.pc = "for", !.k = input.k + 1,
                          !.current_line = input.current_line
                                           \o (IF input.current_line # "" THEN " " ELSE "")
                                           \o input.word]
       ELSE input' = [input EXCEPT
                          !.pc = "for", !.k = input.k + 1,
                          !.lines = Append(input.lines, input.current_line),
                          !.current_line = input.word]
    /\ UNCHANGED <<recs, lists, objs, origin, call, tam, gc, df>>

\* the leftover line and the return
WrapReturn ==
    /\ input.pc = "for"
    /\ input.k > Len(input.words)
    /\ LET lines == IF input.current_line # "" THEN Append(input.lines, input.current_line)
                    ELSE input.lines
       IN /\ input' = [input EXCEPT !.pc = "done", !.lines = lines]
          /\ call' = [op |-> "wrap_text", self |-> 0, args |-> <<input.text, input.width>>,
                      ret |-> Return(lines)]
    /\ UNCHANGED <<recs, lists, objs, origin, tam, gc, df>>

NextWrapSteps ==
    \/ WrapEnter
    \/ WrapNextWord
    \/ WrapWhile
    \/ WrapFit
    \/ WrapReturn

SpecWrapSteps == InitWrapSteps /\ [][NextWrapSteps]_vars

\* the interpreter keeps executing the call
FairWrapSteps == SpecWrapSteps /\ WF_vars(NextWrapSteps)

----------------------------------------------------------------------------
(* TimeAndMemory.sort_ints (A2), one pass of the selection sort per step.   *)
(* The frame of the call is held in `input`: [pc, length, generated,        *)
(* values, i], generated the array as np.random.randint returned it.        *)

\* longest array sorted
MaxSort == 4

\* the values np.random.randint draws from, cut down to three
SortValues == {0, 1, 2}

\* a float argument
Float(x) == [t |-> "float", v |-> x]

SortLengths == {Num(n) : n \in -1..MaxSort} \cup {Str("3"), None, Float(2)}

SortFrames ==
    {[pc |-> "call", length |-> l, generated |-> <<>>, values |-> <<>>, i |-> 0] :
         l \in SortLengths}

InitSort ==
    /\ NoHeap
    /\ input \in SortFrames
    /\ call = NoCall

\* the inner loop keeping the largest instead
RECURSIVE minLoop_largest(_, _, _)
minLoop_largest(values, j, min_index) ==
    IF j >= Len(values) THEN min_index
    ELSE minLoop_largest(values, j + 1,
                         IF values[j + 1] > values[min_index + 1] THEN j ELSE min_index)

\* for j in range(j, length): the index of the smallest of values[i..]
RECURSIVE minLoop(_, _, _)
minLoop(values, j, min_index) ==
    IF j >= Len(values) THEN min_index
    ELSE minLoop(values, j + 1, IF values[j + 1] < values[min_index + 1] THEN j ELSE min_index)

\* values[i], values[min_index] = values[min_index], values[i]
swap(values, i, min_index) ==
    [values EXCEPT ![i + 1] = values[min_index + 1], ![min_index + 1] = values[i + 1]]

\* the validation, then values = np.random.randint(0, 10000, length)
SortEnter ==
    /\ input.pc = "call"
    /\ IF input.length.t # "num"
       THEN /\ input' = [input EXCEPT !.pc = "done"]
            /\ call' = [op |-> "sort_ints", self |-> 0, args |-> <<input.length>>,
                        ret |-> Raise("TypeError")]
       ELSE IF input.length.v <= 0
       THEN /\ input' = [input EXCEPT !.pc = "done"]
            /\ call' = [op |-> "sort_ints", self |-> 0, args |-> <<input.length>>,
                        ret |-> Raise("ValueError")]
       ELSE /\ \E values \in [1..input.length.v -> SortValues] :
                   input' = [input EXCEPT !.pc = "loop", !.generated = values,
                                          !.values = values]
            /\ UNCHANGED call
    /\ UNCHANGED <<recs, lists, objs, origin, tam, gc, df>>

\* one iteration of for i in range(length - 1)
SortPass ==
    /\ input.pc = "loop"
    /\ input.i < input.length.v - 1
    /\ input' = [input EXCEPT
                     !.values = swap(input.values, input.i,
                                     minLoop(input.values, input.i + 1, input.i)),
                     !.i = input.i + 1]
    /\ UNCHANGED <<recs, lists, objs, origin, call, tam, gc, df>>

\* del values, and the method falls off its end; the frame keeps the array as
\* it was when it was dropped
SortReturn ==
    /\ input.pc = "loop"
    /\ input.i >= input.length.v - 1
    /\ input' = [input EXCEPT !.pc = "done"]
    /\ call' = [op |-> "sort_ints", self |-> 0, args |-> <<input.length>>, ret |-> Return(None)]
    /\ UNCHANGED <<recs, lists, objs, origin, tam, gc, df>>

NextSort ==
    \/ SortEnter
    \/ SortPass
    \/ SortReturn

SpecSort == InitSort /\ [][NextSort]_vars

\* the interpreter keeps executing the call
FairSort == SpecSort /\ WF_vars(NextSort)

----------------------------------------------------------------------------
(* Properties of the ISBN helpers (checked under SpecISBN) *)

\* the argument and the outcome of the last call
Arg(n) == call.args[n]
Returned(v) == call.ret = Return(v)
Raised(e) == call.ret = Raise(e)

IsIsbn13(s) == Len(s) = 13 /\ \A i \in 1..13 : \E d \in 1..10 : CharAt(s, i) = CharAt(DigitChars, d)

\* S: the digits at the even offsets 0, 2, .., 10 once, those at the odd offsets
\* 1, 3, .., 11 three times
WeightedSum(s) ==
    LET D(offset) == CHOOSE n \in 0..9 : CharAt(DigitChars, n + 1) = CharAt(s, offset + 1)
    IN (D(0) + D(2) + D(4) + D(6) + D(8) + D(10))
       + 3 * (D(1) + D(3) + D(5) + D(7) + D(9) + D(11))

LastDigit(s) == CHOOSE n \in 0..9 : CharAt(DigitChars, n + 1) = CharAt(s, 13)

\* C5: valid(isbn) on 13 digit characters returns true exactly when the 13th
\* digit equals 10 - (S mod 10), so never when S mod 10 = 0; on any other input
\* it raises ValueError.
C5_ValidCheckDigit ==
    call.op = "valid" =>
        LET s == Arg(1).v
        IN IF IsIsbn13(s)
           THEN /\ Returned(Bool(LastDigit(s) = 10 - (WeightedSum(s) % 10)))
                /\ WeightedSum(s) % 10 = 0 => Returned(Bool(FALSE))
           ELSE Raised("ValueError")

\* valid has rejected 13 digits whose weighted sum is a multiple of 10 and whose
\* last digit is 0
C5_Witness ==
    /\ call.op = "valid"
    /\ IsIsbn13(Arg(1).v)
    /\ WeightedSum(Arg(1).v) % 10 = 0
    /\ LastDigit(Arg(1).v) = 0
    /\ Returned(Bool(FALSE))

\* C6: valid("9780099529126") returns true and valid("9780099529127") returns
\* false.
C6_DocExample ==
    call.op = "valid" =>
        /\ Arg(1).v = "9780099529126" => Returned(Bool(TRUE))
        /\ Arg(1).v = "9780099529127" => Returned(Bool(FALSE))

RECURSIVE WithoutHyphens(_)
WithoutHyphens(s) ==
    IF s = "" THEN ""
    ELSE (IF CharAt(s, 1) = "-" THEN "" ELSE CharAt(s, 1)) \o WithoutHyphens(SubSeq(s, 2, Len(s)))

----------------------------------------------------------------------------
(* Properties of the instances (checked under Spec) *)

\* the list instance i holds after the step
HeldAfter(i) == lists'[objs'[i].ref]

FilterOps ==
    {"printByTitle", "printByAuthor", "printOverPrice", "printAllBooksSorted",
     "printByVar", "printOverVar", "printCommentsSorted"}

\* the step returns an instance other than its receiver
ReturnsOther ==
    /\ call'.ret.k = "return"
    /\ call'.ret.v.t = "obj"
    /\ call'.ret.v.id # call'.self

\* C1: a filtering or sorting call leaves the receiver holding the same records
\* in the same order, and an instance it returns that is not the receiver holds
\* a list built by the call, not the receiver's list.
C1_FiltersLeaveReceiver ==
    [][call'.op \in FilterOps =>
          /\ HeldAfter(call'.self) = Held(call'.self)
          /\ ReturnsOther =>
                /\ objs'[call'.ret.v.id].ref \notin DOMAIN lists
                /\ objs'[call'.ret.v.id].ref # objs'[call'.self].ref]_vars

\* printCommentsSorted has returned a new instance whose list is in another
\* order than the receiver's
C1_Witness ==
    /\ call.op = "printCommentsSorted"
    /\ call.ret.k = "return"
    /\ call.ret.v.id # call.self
    /\ Len(Held(call.ret.v.id)) = Len(Held(call.self))
    /\ Held(call.ret.v.id) # Held(call.self)

\* C2: add_field on a repository returned by printByVar, printOverVar or
\* printCommentsSorted of a source repository changes no record of the source
\* repository.
C2_DerivedAddFieldLeavesSource ==
    [][(call'.op = "add_field" /\ origin[call'.self] # 0) =>
          \A r \in Range(Held(origin[call'.self])) : recs'[r] = recs[r]]_vars

\* C3: once a record carries post_info, no later call replaces the value.
C3_PostInfoNeverReplaced ==
    [][\A r \in DOMAIN recs :
          "post_info" \in DOMAIN recs[r] =>
              /\ "post_info" \in DOMAIN recs'[r]
              /\ recs'[r]["post_info"] = recs[r]["post_info"]]_vars

\* C4: after an add_field call on a non-empty list every record of the list
\* carries post_info, and an add_field call that follows one on the same
\* instance leaves every record as it was.
C4_AddFieldIdempotent ==
    [][(call'.op = "add_field" /\ Held(call'.self) # <<>>) =>
          /\ \A r \in Range(HeldAfter(call'.self)) : "post_info" \in DOMAIN recs'[r]
          /\ (call.op = "add_field" /\ call.self = call'.self) => recs' = recs]_vars

\* C7: validateISBNs on books with 13-digit ISBNs returns the receiver, which
\* then holds exactly the books that pass valid, in their original order.
C7_ValidateKeepsValidBooks ==
    [][(/\ call'.op = "validateISBNs"
        /\ \A b \in Range(Held(call'.self)) : IsIsbn13(recs[b]["ISBN"].v)) =>
          /\ call'.ret = Return(Obj(call'.self))
          /\ HeldAfter(call'.self) =
                 SelectSeq(Held(call'.self),
                           LAMBDA b : valid(recs[b]["ISBN"].v) = Return(Bool(TRUE)))]_vars

\* validateISBNs has removed Catch-22, whose ISBN fails the check, from the list
\* the caller built
C7_Witness ==
    /\ call.op = "validateISBNs"
    /\ call.ret = Return(Obj(1))
    /\ lists[1] = <<1, 2>>
    /\ Held(1) = <<1>>

\* two characters that are equal, or the two cases of one letter
SameLetter(a, b) ==
    \/ a = b
    \/ \E n \in 1..26 : {a, b} = {CharAt(UpperChars, n), CharAt(LowerChars, n)}

\* term occurs in text, letter case ignored
OccursIgnoringCase(term, text) ==
    \E at \in 0..(Len(text) - Len(term)) :
        \A j \in 1..Len(term) : SameLetter(CharAt(text, at + j), CharAt(term, j))

\* the step returns a new instance that holds exactly items
ReturnsNewOver(items) ==
    /\ call'.ret.k = "return"
    /\ call'.ret.v.t = "obj"
    /\ call'.ret.v.id \notin DOMAIN objs
    /\ objs'[call'.ret.v.id].cls = objs[call'.self].cls
    /\ HeldAfter(call'.ret.v.id) = items

\* C9: printByTitle / printByAuthor return a new instance over the books whose
\* Title / Author contains the term, letter case ignored, and printOverPrice one
\* over the books priced strictly above the threshold, in their original order;
\* a term that is no text, or a price that is no number, raises TypeError.
C9_FiltersSelect ==
    [][/\ call'.op = "printByTitle" =>
             IF IsStr(call'.args[1])
             THEN ReturnsNewOver(SelectSeq(Held(call'.self), LAMBDA b :
                      OccursIgnoringCase(call'.args[1].v, recs[b]["Title"].v)))
             ELSE call'.ret = Raise("TypeError")
       /\ call'.op = "printByAuthor" =>
             IF IsStr(call'.args[1])
             THEN ReturnsNewOver(SelectSeq(Held(call'.self), LAMBDA b :
                      OccursIgnoringCase(call'.args[1].v, recs[b]["Author"].v)))
             ELSE call'.ret = Raise("TypeError")
       /\ call'.op = "printOverPrice" =>
             IF call'.args[1].t = "num"
             THEN ReturnsNewOver(SelectSeq(Held(call'.self), LAMBDA b :
                      ~(recs[b]["Price"].v <= call'.args[1].v)))
             ELSE call'.ret = Raise("TypeError")]_vars

\* printOverPrice(6.29) has left out Catch-22, priced 6.29, and kept a dearer book
C9_Witness ==
    /\ call.op = "printOverPrice"
    /\ call.args[1] = Num(629)
    /\ Held(call.self) = <<1, 2>>
    /\ call.ret.k = "return"
    /\ Held(call.ret.v.id) = <<1>>

\* list is in the order of field: ascending, or descending when reverse
InOrder(list, field, reverse) ==
    \A i \in 1..(Len(list) - 1) :
        IF reverse THEN ~Less(recs[list[i]][field], recs[list[i + 1]][field])
        ELSE ~Less(recs[list[i + 1]][field], recs[list[i]][field])

\* C10: printAllBooksSorted(sortedBy) with sortedBy naming Price, Title or
\* Author in any letter case returns a new instance holding the books sorted by
\* that field; any other sortedBy raises ValueError.
C10_SortedByAnyCase ==
    [][(call'.op = "printAllBooksSorted" /\ IsStr(call'.args[1])) =>
          IF \E f \in {"Price", "Title", "Author"} : lower(f) = lower(call'.args[1].v)
          THEN LET field == CHOOSE f \in {"Price", "Title", "Author"} :
                                lower(f) = lower(call'.args[1].v)
               IN /\ call'.ret.k = "return"
                  /\ call'.ret.v.id \notin DOMAIN objs
                  /\ Range(HeldAfter(call'.ret.v.id)) \subseteq Range(Held(call'.self))
                  /\ call'.args[4] = None =>
                         Len(HeldAfter(call'.ret.v.id)) = Len(Held(call'.self))
                  /\ InOrder(HeldAfter(call'.ret.v.id), field, call'.args[2].v)
          ELSE call'.ret = Raise("ValueError")]_vars

\* the record matches value on field var: a text that contains value, letter case
\* ignored, or a number equal to value
MatchesVar(c, var, value) ==
    LET field == Get(recs[c], var)
    IN \/ IsStr(field) /\ IsStr(value) /\ OccursIgnoringCase(value.v, field.v)
       \/ IsNum(field) /\ IsNum(value) /\ field.v = value.v

\* C11: printByVar(var, value) on a non-empty list raises ValueError when var is
\* no key of the records; otherwise it returns a new instance over the records
\* whose var is a text containing value, letter case ignored, or a number equal
\* to value, in their original order, and the receiver when no record matches.
C11_PrintByVarSelects ==
    [][(call'.op = "printByVar" /\ Held(call'.self) # <<>>) =>
          IF ~(IsStr(call'.args[1]) /\ call'.args[1].v \in DOMAIN recs[Held(call'.self)[1]])
          THEN call'.ret = Raise("ValueError")
          ELSE LET matching == SelectSeq(Held(call'.self), LAMBDA c :
                                   MatchesVar(c, call'.args[1].v, call'.args[2]))
               IN IF matching # <<>> THEN ReturnsNewOver(matching)
                  ELSE call'.ret = Return(Obj(call'.self))]_vars

\* the first n records of list, all of them when n is None
FirstN(list, n) ==
    IF n = None THEN list
    ELSE [i \in 1..(IF n.v < Len(list) THEN n.v ELSE Len(list)) |-> list[i]]

\* C12: printOverVar(var, value, limit) with a number value on a non-empty list
\* raises ValueError unless var is a key whose value in the first record is a
\* number; otherwise it returns a new instance over the first limit (all, when
\* no limit is given) of the records with var strictly above value, in their
\* original order, and None, not an instance, when that selection is empty.
C12_PrintOverVarSelects ==
    [][(call'.op = "printOverVar" /\ Held(call'.self) # <<>> /\ IsNum(call'.args[2])) =>
          IF ~(/\ IsStr(call'.args[1])
               /\ call'.args[1].v \in DOMAIN recs[Held(call'.self)[1]]
               /\ IsNum(recs[Held(call'.self)[1]][call'.args[1].v]))
          THEN call'.ret = Raise("ValueError")
          ELSE LET selection ==
                       FirstN(SelectSeq(Held(call'.self), LAMBDA c :
                                  ~(recs[c][call'.args[1].v].v <= call'.args[2].v)),
                              call'.args[4])
               IN IF selection # <<>> THEN ReturnsNewOver(selection)
                  ELSE call'.ret = Return(None)]_vars

\* printOverVar('postId', 0, limit=1) on two comments above the threshold has
\* returned a new instance holding the first of them only
C12_Witness ==
    /\ call.op = "printOverVar"
    /\ call.args[1] = Str("postId") /\ call.args[2] = Num(0) /\ call.args[4] = Num(1)
    /\ Held(call.self) = <<1, 2>>
    /\ call.ret.k = "return"
    /\ call.ret.v.t = "obj"
    /\ Held(call.ret.v.id) = <<1>>

\* C13: every add_field call on a non-empty list returns the receiver, whether
\* the call generates post_info or finds it already present.
C13_AddFieldReturnsReceiver ==
    [][(call'.op = "add_field" /\ Held(call'.self) # <<>>) =>
          call'.ret = Return(Obj(call'.self))]_vars

----------------------------------------------------------------------------
(* Properties of wrap_text (checked under SpecWrap) *)

\* the characters of s that are not in drop, in order
RECURSIVE Without(_, _)
Without(s, drop) ==
    IF s = "" THEN ""
    ELSE (IF CharAt(s, 1) \in drop THEN "" ELSE CharAt(s, 1))
         \o Without(SubSeq(s, 2, Len(s)), drop)

\* the lines one after the other
RECURSIVE Joined(_)
Joined(lines) == IF lines = <<>> THEN "" ELSE Head(lines) \o Joined(Tail(lines))

WrapCall == call.op = "wrap_text" /\ IsStr(Arg(1)) /\ Arg(2).t = "num" /\ Arg(2).v >= 1

\* C14: for a text and a width of at least 1, every line wrap_text returns is at
\* most width long, and the characters of the lines that are no spaces, read in
\* order, are the non-whitespace characters of the text in order.
C14_WrapKeepsWords ==
    WrapCall =>
        /\ call.ret.k = "return"
        /\ \A i \in DOMAIN call.ret.v : Len(call.ret.v[i]) <= Arg(2).v
        /\ Without(Joined(call.ret.v), {" "}) = Without(Arg(1).v, Whitespace)

----------------------------------------------------------------------------
(* Properties of TimeAndMemory (checked under SpecTam) *)

\* the sizes i * step_size, i = 1..10
SizesOf(step_size) == [i \in 1..10 |-> i * step_size]

\* C15: whatever investigate and save_results calls came before,
\* investigate(f, name, submission=True) returns the hard-coded table of
\* __init__ for each of the five algorithm names and raises ValueError for any
\* other name, without calling f and without changing results or residuals.
C15_SubmissionReturnsSeed ==
    [][(call'.op = "investigate" /\ call'.args[4] = Bool(TRUE)) =>
          /\ IF call'.args[2].v \in AlgorithmNames
             THEN call'.ret = Return(SeedResults[call'.args[2].v])
             ELSE call'.ret = Raise("ValueError")
          /\ call'.calls = <<>>
          /\ tam' = tam]_vars

\* C16: when investigate(function, name, step_size) with submission False
\* returns, function has been called once with each size i * step_size,
\* i = 1..10, in increasing order, the returned table has those 10 sizes as its
\* Size column, and results[name] is the returned table, whatever the name.
C16_LiveRunStoresTable ==
    [][(call'.op = "investigate" /\ call'.args[4] = Bool(FALSE) /\ call'.ret.k = "return") =>
          /\ call'.calls = SizesOf(call'.args[3].v)
          /\ call'.ret.v.Size = SizesOf(call'.args[3].v)
          /\ call'.args[2].v \in DOMAIN tam'.results
          /\ tam'.results[call'.args[2].v] = call'.ret.v]_vars

\* C17: save_results(name, table) makes results[name] the table and leaves the
\* other entries alone when name is one of the five algorithm names; for any
\* other name it raises ValueError and leaves results unchanged.
C17_SaveResultsRejectsUnknown ==
    [][call'.op = "save_results" =>
          IF call'.args[1].v \in AlgorithmNames
          THEN /\ call'.ret.k = "return"
               /\ DOMAIN tam'.results = DOMAIN tam.results \cup {call'.args[1].v}
               /\ \A n \in DOMAIN tam'.results :
                      tam'.results[n] = IF n = call'.args[1].v THEN call'.args[2]
                                        ELSE tam.results[n]
          ELSE /\ call'.ret = Raise("ValueError")
               /\ tam'.results = tam.results]_vars

\* the step stores a residual series under key, or replaces the one stored
StoresResidual(key) ==
    /\ key \in DOMAIN tam'.residuals
    /\ key \in DOMAIN tam.residuals => tam'.residuals[key] # tam.residuals[key]

\* C18: residuals is empty at construction; a residual series is stored under
\* (name, variable) only by a plots(name, variable, exp_rel) call with variable
\* time or memory and exp_rel cubic, quadratic or linear that completes, no key
\* is ever removed, and a plots call that raises leaves residuals and results
\* unchanged.
C18_ResidualsOnlyFromPlots ==
    /\ tam.residuals = <<>>
    /\ [][/\ DOMAIN tam.residuals \subseteq DOMAIN tam'.residuals
          /\ \A key \in DOMAIN tam'.residuals :
                 StoresResidual(key) =>
                     /\ call'.op = "plots"
                     /\ call'.args[1].v = key[1]
                     /\ call'.args[2].v = key[2]
                     /\ key[2] \in {"time", "memory"}
                     /\ call'.args[3].v \in {"cubic", "quadratic", "linear"}
                     /\ call'.ret = Return(None)
          /\ (call'.op = "plots" /\ call'.ret.k = "raise") => tam' = tam]_vars

\* plots('mat_mult', 'memory', ...) has completed and stored its residual series
C18_Witness ==
    /\ call.op = "plots"
    /\ call.args[1] = Str("mat_mult") /\ call.args[2] = Str("memory")
    /\ call.ret = Return(None)
    /\ <<"mat_mult", "memory">> \in DOMAIN tam.residuals
    /\ <<"mat_mult", "time">> \notin DOMAIN tam.residuals

\* the methods of a plot_residuals call as a sequence of names
MethodsOf(methods) == IF IsStr(methods) THEN <<methods.v>> ELSE methods.v

\* C19: plot_residuals(variable, methods) with one method, a string or a list
\* of one, whose (method, variable) residual series is stored completes without
\* an exception.
C19_SingleMethodCompletes ==
    [][(/\ call'.op = "plot_residuals"
        /\ call'.args[2] # None
        /\ Len(MethodsOf(call'.args[2])) = 1
        /\ <<MethodsOf(call'.args[2])[1], call'.args[1].v>> \in DOMAIN tam.residuals) =>
          call'.ret = Return(None)]_vars

\* C20: plot_residuals raises ValueError when methods is None or an empty list,
\* and KeyError when some requested (method, variable) has no stored residual
\* series; residuals is unchanged in both cases.
C20_PlotResidualsRejects ==
    [][call'.op = "plot_residuals" =>
          /\ (call'.args[2] = None \/ call'.args[2] = List(<<>>)) =>
                 call'.ret = Raise("ValueError")
          /\ (/\ call'.args[2] # None
              /\ \E k \in DOMAIN MethodsOf(call'.args[2]) :
                     <<MethodsOf(call'.args[2])[k], call'.args[1].v>>
                         \notin DOMAIN tam.residuals) =>
                 call'.ret = Raise("KeyError")
          /\ tam'.residuals = tam.residuals]_vars

----------------------------------------------------------------------------
(* Properties of calc_sf (checked under SpecSf) *)

\* the consecutive row pairs (i - 1, i), named by i, that the claim retains
Retained(size, variable) ==
    {i \in 2..Len(size) : size[i - 1] # 0 /\ variable[i - 1] # 0 /\ variable[i] # variable[i - 1]}

\* c_i = var2 / ((size2 / size1) ^ exponent * var1)
ScaleFactor(size, variable, exponent, i) ==
    FracDiv(Frac(variable[i], 1),
            FracMul(FracPow(Frac(size[i], size[i - 1]), exponent), Frac(variable[i - 1], 1)))

\* the sum of c_i over a set of pairs
RECURSIVE SumOver(_, _, _, _)
SumOver(pairs, size, variable, exponent) ==
    IF pairs = {} THEN Frac(0, 1)
    ELSE LET i == CHOOSE j \in pairs : TRUE
         IN FracAdd(SumOver(pairs \ {i}, size, variable, exponent),
                    ScaleFactor(size, variable, exponent, i))

SfCall == call.op = "calc_sf"

----------------------------------------------------------------------------
(* Properties of CleanerClass (checked under SpecCleaner) *)

\* the operations that rebind or fill self.df
CleanerOps ==
    {"col_order_sort", "to_numeric", "drop_missing_adjustment", "rm_empty_rows",
     "rm_zero_rows", "rm_unmatched_signs", "replace_missing_values"}

\* C22: whenever a CleanerClass operation raises an error, the held dataset
\* (columns, their order, rows and values) is what it was before the call; in
\* particular a col_order_sort that fails on an absent col_to_sort leaves the
\* columns unchanged.
C22_AllOrNothing ==
    [][(call'.op \in CleanerOps /\ call'.ret.k = "raise") => df' = df]_vars

\* the mean of the non-missing values of col over the rows of frame that share
\* the group of row i
MeanWithinGroup(frame, group, col, i) ==
    LET same == {j \in DOMAIN frame.rows :
                     /\ frame.rows[j].cells[group] = frame.rows[i].cells[group]
                     /\ ~IsNaN(frame.rows[j].cells[col])}
        RECURSIVE Total(_)
        Total(js) == IF js = {} THEN Frac(0, 1)
                     ELSE LET j == CHOOSE x \in js : TRUE
                          IN FracAdd(frame.rows[j].cells[col].v, Total(js \ {j}))
    IN IF same = {} THEN NaN ELSE Num(FracDiv(Total(same), Frac(Cardinality(same), 1)))

\* C23: replace_missing_values(group, cols), group a column of the dataset and
\* cols a list of one or more of its columns, returns self, and afterwards each
\* value that was missing in a listed column is the mean of the column's
\* non-missing values within the row's group, the other values unchanged.
C23_FillsWithGroupMean ==
    [][(/\ call'.op = "replace_missing_values"
        /\ call'.args[1] \in Range(df.columns)
        /\ Len(call'.args[2]) >= 1
        /\ Range(call'.args[2]) \subseteq Range(df.columns))
       => /\ call'.ret = Return(Str("self"))
          /\ df'.columns = df.columns
          /\ Len(df'.rows) = Len(df.rows)
          /\ \A i \in DOMAIN df.rows, c \in Range(df.columns) :
                 df'.rows[i].cells[c] =
                     IF c \in Range(call'.args[2]) /\ IsNaN(df.rows[i].cells[c])
                     THEN MeanWithinGroup(df, call'.args[1], c, i)
                     ELSE df.rows[i].cells[c]]_vars

\* C24: count_removed_rows(df1, df2) fails with ValueError whenever df2 has
\* more rows than df1; otherwise it returns the number of removed rows
\* len(df1) - len(df2) and the percentage 100 * (len(df1) - len(df2)) / len(df1)
\* rounded to 2 decimals (held in hundredths).
C24_CountRemovedRows ==
    call.op = "count_removed_rows" =>
        LET df1_len == call.args[1]
            df2_len == call.args[2]
        IN IF df2_len > df1_len
           THEN call.ret = Raise("ValueError")
           ELSE /\ call.ret.k = "return"
                /\ call.ret.v.removed_rows = df1_len - df2_len
                /\ 2 * df1_len * call.ret.v.perc_removed <= 20000 * (df1_len - df2_len) + df1_len
                /\ 2 * df1_len * call.ret.v.perc_removed >= 20000 * (df1_len - df2_len) - df1_len

\* C25: rm_empty_rows(col_to_ignore) completes on any dataset, one with no rows
\* included; afterwards the rows are those that had a non-missing value in a
\* checked column (every column but col_to_ignore), in their original order,
\* and the row index is 0..n-1.
C25_RmEmptyRows ==
    [][(/\ call'.op = "rm_empty_rows"
        /\ \/ call'.args[1] = None
           \/ call'.args[1].v \in Range(df.columns))
       => LET checked == Range(df.columns) \ (IF call'.args[1] = None THEN {} ELSE {call'.args[1].v})
              kept == SelectSeq(df.rows, LAMBDA r : \E c \in checked : ~IsNaN(r.cells[c]))
          IN /\ call'.ret = Return(Str("self"))
             /\ df'.columns = df.columns
             /\ Len(df'.rows) = Len(kept)
             /\ \A i \in DOMAIN kept :
                    /\ df'.rows[i].cells = kept[i].cells
                    /\ df'.rows[i].index = i - 1]_vars

----------------------------------------------------------------------------
(* Properties of substring_check (checked under SpecSubstring) *)

\* substring is string[i:j] for some i <= j
IsSlice(string, substring) ==
    \E i \in 1..Len(string) + 1, j \in 0..Len(string) :
        i <= j + 1 /\ SubSeq(string, i, j) = substring

SubstringCall == call.op = "substring_check"

\* C26: for non-empty strings, substring_check(string, substring) returns true
\* exactly when substring is a contiguous slice of string, false when
\* substring is the longer; it fails with ValueError when an argument is
\* empty or not textual.
C26_SubstringCheck ==
    SubstringCall =>
        LET string == call.args[1]
            substring == call.args[2]
        IN IF ~IsStr(string) \/ ~IsStr(substring) THEN call.ret = Raise("ValueError")
           ELSE IF string.v = "" \/ substring.v = "" THEN call.ret = Raise("ValueError")
           ELSE /\ call.ret = Return(Bool(IsSlice(string.v, substring.v)))
                /\ Len(substring.v) > Len(string.v) => call.ret = Return(Bool(FALSE))

\* a call that finds the substring at the very end of a longer string
C26_Witness ==
    /\ SubstringCall
    /\ call.args = <<Str("aab"), Str("ab")>>
    /\ call.ret = Return(Bool(TRUE))

----------------------------------------------------------------------------
(* Garbage collection around investigate (checked under SpecTam) *)

\* C27: whenever an investigate call with submission false has exited, by
\* returning its table or because function(size) raised an error, automatic
\* garbage collection is enabled again.
C27_GcEnabledAfterInvestigate ==
    (call.op = "investigate" /\ call.args[4] = Bool(FALSE)) => gc = TRUE

----------------------------------------------------------------------------
(* Lists held by returned commentData instances (checked under Spec) *)

CommentOps == {"printByVar", "printOverVar", "printCommentsSorted", "add_field"}

\* C28: an instance returned by printByVar, printOverVar, printCommentsSorted or
\* add_field called on a non-empty list holds a non-empty list, whatever the
\* limit; in particular printCommentsSorted with show=True and limit=0 does not
\* fail on an empty list.
C28_ReturnedListsNonEmpty ==
    [][(call'.op \in CommentOps /\ Held(call'.self) # <<>>) =>
          /\ (call'.ret.k = "return" /\ call'.ret.v.t = "obj")
                 => HeldAfter(call'.ret.v.id) # <<>>
          /\ call'.ret # Raise("IndexError")]_vars

----------------------------------------------------------------------------
(* Termination of wrap_text (checked under FairWrapSteps) *)

\* C29: wrap_text(text, width) terminates and returns a list of lines for every
\* string text and every integer width, zero and negative widths included:
\* each iteration of the loop that hard-splits a long word makes the word
\* strictly shorter, and the call eventually returns.
C29_WrapTerminates ==
    /\ [][(input.pc = "while" /\ input'.pc = "while") => Len(input'.word) < Len(input.word)]_vars
    /\ <>(input.pc = "done")

----------------------------------------------------------------------------
(* The selection sort of sort_ints (checked under FairSort) *)

\* values[1..n] is ascending
Ascending(values, n) == \A a, b \in 1..n : a < b => values[a] <= values[b]

\* the same values the same number of times
SameMultiset(a, b) ==
    /\ Len(a) = Len(b)
    /\ \A v \in SortValues :
           Cardinality({k \in DOMAIN a : a[k] = v}) = Cardinality({k \in DOMAIN b : b[k] = v})

\* what holds of the frame at every point of the call
SortInvariant ==
    /\ input.pc = "loop" =>
           /\ SameMultiset(input.values, input.generated)
           /\ Ascending(input.values, input.i)
           /\ \A a \in 1..input.i, b \in input.i + 1..Len(input.values) :
                  input.values[a] <= input.values[b]
    /\ input.pc = "done" =>
           IF input.length.t # "num"
           THEN call.ret = Raise("TypeError") /\ input.generated = <<>>
           ELSE IF input.length.v <= 0
           THEN call.ret = Raise("ValueError") /\ input.generated = <<>>
           ELSE /\ call.ret = Return(None)
                /\ Len(input.values) = input.length.v
                /\ Ascending(input.values, Len(input.values))
                /\ SameMultiset(input.values, input.generated)

\* C30: the selection sort of sort_ints(length) terminates for every integer
\* length >= 1 and leaves the array ascending with the multiset of values it
\* was generated with (after step i the prefix is sorted and no element of it
\* exceeds an element of the remainder); sort_ints fails with TypeError for a
\* non-integer length and with ValueError for length <= 0, before any data is
\* generated.
C30_SelectionSort == []SortInvariant /\ <>(input.pc = "done")

\* a call that sorted a descending array of three values and returned
C30_Witness ==
    /\ input.pc = "done"
    /\ input.generated = <<2, 1, 0>>
    /\ input.values = <<0, 1, 2>>
    /\ call.ret = Return(None)

============================================================================
